---- MODULE Spec2Model ----
(***************************************************************************)
(* A model of the tsCognilint extension (src/src/extension.ts): the pure   *)
(* pipeline that turns a complexity tree and a symbol tree into            *)
(* diagnostics, and the per-document debounce machinery around it.         *)
(***************************************************************************)
EXTENDS Integers, Sequences, FiniteSets, TLC

(***************************************************************************)
(* Bounds of the model.                                                    *)
(***************************************************************************)
\* Number of timers setTimeout may create in one behaviour.
MaxTimers == 3
\* Number of nodes of the complexity forests the pure pipeline is applied to.
MaxNodes == 3
\* Largest score and threshold the severity selection is applied to.
MaxScore == 25
\* Number of symbols of the symbol forests the match loop is applied to.
MaxSymbols == 2

(***************************************************************************)
(* JavaScript values.                                                      *)
(***************************************************************************)
\* The value of an optional field that is absent (score?: number, line?: number).
Undefined == -1

\* x || 0 on an optional number: undefined and 0 are both falsy.
OrZero(x) == IF x = Undefined THEN 0 ELSE x

\* The truthiness of an optional number as used in `adjustedScore > 0 && item.line`.
Truthy(x) == x # Undefined /\ x # 0

(***************************************************************************)
(* getScoreSum, flattenInner (extension.ts 79-100).                        *)
(* A ComplexityItem is [score, line, inner]; inner is a sequence of items  *)
(* (an absent inner is the empty sequence: item.inner || []).              *)
(***************************************************************************)
RECURSIVE getScoreSum(_)
getScoreSum(inner) ==
    IF inner = <<>> THEN 0
    ELSE LET n    == Len(inner)
             item == inner[n]
             acc  == getScoreSum(SubSeq(inner, 1, n - 1))
             sum  == getScoreSum(item.inner)
         IN  acc + OrZero(item.score) + sum

\* (item.score || 0) - getScoreSum(item.inner || [])
adjustedScore(item) == OrZero(item.score) - getScoreSum(item.inner)

\* flattenInner recursing only into the items it pushes.
RECURSIVE flattenInnerOfPushed(_)
flattenInnerOfPushed(inner) ==
    IF inner = <<>> THEN <<>>
    ELSE LET n    == Len(inner)
             item == inner[n]
             acc  == flattenInnerOfPushed(SubSeq(inner, 1, n - 1))
             adjusted == adjustedScore(item)
         IN  IF adjusted > 0 /\ Truthy(item.line)
             THEN Append(acc, [item EXCEPT !.score = adjusted])
                      \o flattenInnerOfPushed(item.inner)
             ELSE acc

RECURSIVE flattenInner(_)
flattenInner(inner) ==
    IF inner = <<>> THEN <<>>
    ELSE LET n    == Len(inner)
             item == inner[n]
             acc  == flattenInner(SubSeq(inner, 1, n - 1))
             nestedFlattened == flattenInner(item.inner)
             adjusted == adjustedScore(item)
             pushed == IF adjusted > 0 /\ Truthy(item.line)
                       THEN Append(acc, [item EXCEPT !.score = adjusted])
                       ELSE acc
         IN  pushed \o nestedFlattened

(***************************************************************************)
(* Severity selection (extension.ts 164-172).                              *)
(***************************************************************************)
\* severity comparing with >= where the code compares with >.
severityInclusive(score, warningThreshold, errorThreshold) ==
    IF score >= errorThreshold THEN "Error"
    ELSE IF score >= warningThreshold THEN "Warning"
    ELSE "null"

\* severity with the thresholds put in order first.
severityOrdered(score, warningThreshold, errorThreshold) ==
    LET low  == IF errorThreshold < warningThreshold THEN errorThreshold
                ELSE warningThreshold
        high == IF errorThreshold < warningThreshold THEN warningThreshold
                ELSE errorThreshold
    IN  IF score > high THEN "Error"
        ELSE IF score > low THEN "Warning"
        ELSE "null"

severity(score, warningThreshold, errorThreshold) ==
    IF score > errorThreshold THEN "Error"
    ELSE IF score > warningThreshold THEN "Warning"
    ELSE "null"

(***************************************************************************)
(* rangeToString (extension.ts 207-209).                                   *)
(***************************************************************************)
rangeToString(range) ==
    ToString(range.start.line) \o "," \o ToString(range.start.character)
        \o "-" \o ToString(range.end.line) \o "," \o ToString(range.end.character)

(***************************************************************************)
(* filterFunctionSymbols (extension.ts 216-228).                           *)
(* A DocumentSymbol is [kind, selectionRange, children].                   *)
(***************************************************************************)
FunctionKinds == {"Function", "Method", "Constructor"}

\* filterFunctionSymbols scanning the children of kept symbols only.
RECURSIVE filterFunctionSymbolsKeptOnly(_)
filterFunctionSymbolsKeptOnly(symbols) ==
    IF symbols = <<>> THEN <<>>
    ELSE LET n      == Len(symbols)
             symbol == symbols[n]
             before == filterFunctionSymbolsKeptOnly(SubSeq(symbols, 1, n - 1))
         IN  IF symbol.kind \in FunctionKinds
             THEN before \o <<symbol>> \o filterFunctionSymbolsKeptOnly(symbol.children)
             ELSE before

RECURSIVE filterFunctionSymbols(_)
filterFunctionSymbols(symbols) ==
    IF symbols = <<>> THEN <<>>
    ELSE LET n      == Len(symbols)
             symbol == symbols[n]
             before == filterFunctionSymbols(SubSeq(symbols, 1, n - 1))
             own    == IF symbol.kind \in FunctionKinds THEN <<symbol>> ELSE <<>>
         IN  before \o own \o filterFunctionSymbols(symbol.children)

(***************************************************************************)
(* The match loop (extension.ts 154-185).                                  *)
(***************************************************************************)
\* functionSymbols.find(s => s.selectionRange.start.line === (item.line || 0) - 1):
\* the index of the symbol found, 0 when find returns undefined.
RECURSIVE findSymbol(_, _, _)
findSymbol(functionSymbols, item, i) ==
    IF i > Len(functionSymbols) THEN 0
    ELSE IF functionSymbols[i].selectionRange.start.line = OrZero(item.line) - 1
         THEN i
         ELSE findSymbol(functionSymbols, item, i + 1)

\* currentScores.set(key, score) on a Map held as a function.
MapSet(m, key, value) ==
    [k \in (DOMAIN m) \cup {key} |-> IF k = key THEN value ELSE m[k]]

EmptyMap == [k \in {} |-> 0]

newDiagnostic(range, score, sev) ==
    [range    |-> range,
     message  |-> "Cognitive Complexity: " \o ToString(score),
     severity |-> sev,
     source   |-> "tsCognilint"]

\* One iteration of complexityItems.forEach on the accumulated
\* [diagnostics, currentScores].
matchItem(acc, item, functionSymbols, warningThreshold, errorThreshold) ==
    LET found == findSymbol(functionSymbols, item, 1)
    IN  IF found = 0 \/ item.score = Undefined THEN acc
        ELSE LET symbol == functionSymbols[found]
                 range == symbol.selectionRange
                 score == item.score
                 sev   == severity(score, warningThreshold, errorThreshold)
             IN  [currentScores |-> MapSet(acc.currentScores, rangeToString(range), score),
                  diagnostics   |-> IF sev # "null"
                                    THEN Append(acc.diagnostics, newDiagnostic(range, score, sev))
                                    ELSE acc.diagnostics]

RECURSIVE matchItems(_, _, _, _)
matchItems(complexityItems, functionSymbols, warningThreshold, errorThreshold) ==
    IF complexityItems = <<>>
    THEN [currentScores |-> EmptyMap, diagnostics |-> <<>>]
    ELSE LET n == Len(complexityItems)
         IN  matchItem(matchItems(SubSeq(complexityItems, 1, n - 1), functionSymbols,
                                  warningThreshold, errorThreshold),
                       complexityItems[n], functionSymbols,
                       warningThreshold, errorThreshold)

(***************************************************************************)
(* isSupportedLanguage (extension.ts 235-245).                             *)
(***************************************************************************)
isSupportedLanguage(languageId) ==
    languageId \in {"typescript", "typescriptreact", "javascript", "javascriptreact"}

(***************************************************************************)
(* The environment: documents, configurations and what the two external   *)
(* services may answer.                                                    *)
(***************************************************************************)
DocSeq == <<"a.ts", "b.ts">>
Docs == {DocSeq[i] : i \in 1..Len(DocSeq)}
Rank(d) == CHOOSE i \in 1..Len(DocSeq) : DocSeq[i] = d

LanguageIds == {"typescript", "plaintext"}

\* The defaults of config.get('warningThreshold', 10) and config.get('errorThreshold', 20).
DefaultWarningThreshold == 10
DefaultErrorThreshold == 20

\* tsCognilint.enabled; the thresholds are left at their defaults here.
Configs == {[enabled |-> e,
             warningThreshold |-> DefaultWarningThreshold,
             errorThreshold |-> DefaultErrorThreshold] : e \in BOOLEAN}

Leaf(score, line) == [score |-> score, line |-> line, inner |-> <<>>]
Node(score, line, inner) == [score |-> score, line |-> line, inner |-> inner]

\* output.inner of getFileOutput: a function of score 25 holding one of score 5
\* holding one of score 2.
FileOutputs == { <<Node(25, 1, <<Node(5, 2, <<Leaf(2, 3)>>)>>)>> }

Pos(line, character) == [line |-> line, character |-> character]
Range(line, c1, c2) == [start |-> Pos(line, c1), end |-> Pos(line, c2)]
Symbol(kind, line, children) ==
    [kind |-> kind, selectionRange |-> Range(line, 9, 12), children |-> children]

\* What vscode.executeDocumentSymbolProvider answers: a function on line 0 with
\* a nested function on line 1; or nothing (undefined, taken as []).
SymbolResults == { <<Symbol("Function", 0, <<Symbol("Function", 1, <<>>)>>)>>,
                   <<>> }

(***************************************************************************)
(* State.                                                                  *)
(***************************************************************************)
VARIABLES
    config,               \* the workspace configuration of tsCognilint
    diagnosticCollection, \* uri -> published diagnostics, or NoDiagnostics
    complexityScores,     \* uri -> Map(range key -> score), or NoScores
    debounceTimers,       \* uri -> timer handle, or NoTimer
    timeouts,             \* the armed timers of the runtime (setTimeout, not yet fired or cleared)
    runs,                 \* timer callbacks suspended at an await
    nextId,               \* the next timer handle
    disposed,             \* deactivate() has run
    failed,               \* history: the run that failed in the step that led here, as
                          \*   {[doc, had]}: its document and whether that document showed
                          \*   diagnostics or held scores before; {} after any other step
    status,               \* history: uri -> "closed" (closed, no qualifying event since),
                          \*   "cleared" (found unsupported or disabled, not since found
                          \*   supported and enabled) or "tracked"
    settled,              \* history, for the documents it is kept for: uri -> the run
                          \*   that finished for the document, of those finished since
                          \*   the last event, close or deactivate for it, that started
                          \*   last: its timer handle and what it left published and
                          \*   cached; NoSettled when there is none
    calc                  \* the pure pipeline applied to drawn inputs

vars == <<config, diagnosticCollection, complexityScores, debounceTimers, timeouts,
          runs, nextId, disposed, failed, status, settled, calc>>

progVars == <<config, diagnosticCollection, complexityScores, debounceTimers, timeouts,
              runs, nextId, disposed, failed, status, settled>>

\* A map entry that is absent, for the two result maps.
NoDiagnostics == [has |-> FALSE, value |-> <<>>]
NoScores == [has |-> FALSE, value |-> EmptyMap]
Entry(v) == [has |-> TRUE, value |-> v]
NoTimer == 0
NoCalc == [op |-> "none"]
NoSettled == [id |-> NoTimer, diagnostics |-> NoDiagnostics, scores |-> NoScores]

\* History: an event, close or deactivate for the documents V.
forget(V) == [d \in DOMAIN settled |-> IF d \in V THEN NoSettled ELSE settled[d]]

ArmedFor(d) == {t \in timeouts : t.doc = d}
RunsFor(d) == {r \in runs : r.doc = d}

\* Document d shows diagnostics or holds cached scores.
HasResults(d) == diagnosticCollection[d].value # <<>> \/ complexityScores[d].has

(***************************************************************************)
(* processActiveFile (extension.ts 106-200), applied to the documents V   *)
(* of one event in DocSeq order; lang gives each document's languageId.    *)
(***************************************************************************)
\* Lines 107-124: the documents whose diagnostics and scores are deleted.
ClearedBy(V, lang, cfg) ==
    {d \in V : ~isSupportedLanguage(lang[d]) \/ ~cfg.enabled}

\* The documents that reach the debounce (line 126).
ScheduledBy(V, lang, cfg) == V \ ClearedBy(V, lang, cfg)

\* clearPending with the clearTimeout of lines 127-129 left out.
clearPendingNone(d) == {}

\* Lines 127-129: the armed timers that clearTimeout cancels for document d.
clearPending(d) ==
    IF debounceTimers[d] # NoTimer
    THEN {t \in timeouts : t.id = debounceTimers[d]}
    ELSE {}

\* The handle setTimeout returns for d, the documents S being scheduled in order.
NewId(d, S) == nextId + Cardinality({e \in S : Rank(e) < Rank(d)})

\* Line 131: the timer armed for d. replaced is history: arming this timer
\* cancelled the pending timer of an earlier event.
newTimer(d, S) ==
    LET old == clearPending(d)
    IN  [id        |-> NewId(d, S),
         doc       |-> d,
         replaced  |-> old # {}]

\* Lines 110-111 and 121-122.
deleteResults(map, C, none) == [d \in Docs |-> IF d \in C THEN none ELSE map[d]]

\* Line 131: debounceTimers.set(docUriString, ...).
setTimers(S) == [d \in Docs |-> IF d \in S THEN NewId(d, S) ELSE debounceTimers[d]]

processActiveFiles(V, lang, cfg) ==
    LET C == ClearedBy(V, lang, cfg)
        S == ScheduledBy(V, lang, cfg)
    IN  /\ nextId + Cardinality(S) - 1 <= MaxTimers
        /\ diagnosticCollection' = deleteResults(diagnosticCollection, C, NoDiagnostics)
        /\ complexityScores' = deleteResults(complexityScores, C, NoScores)
        /\ timeouts' = (timeouts \ UNION {clearPending(d) : d \in S})
                           \cup {newTimer(d, S) : d \in S}
        /\ debounceTimers' = setTimers(S)
        /\ nextId' = nextId + Cardinality(S)
        /\ status' = [d \in Docs |-> IF d \in S THEN "tracked"
                                     ELSE IF d \in C THEN "cleared" ELSE status[d]]
        /\ failed' = {}
        /\ settled' = forget(V)

(***************************************************************************)
(* Events (extension.ts 32-60).                                            *)
(***************************************************************************)
\* onDidChangeTextDocument / onDidChangeActiveTextEditor: processActiveFile(document).
DocumentEvent(d, languageId) ==
    /\ ~disposed
    /\ processActiveFiles({d}, [e \in {d} |-> languageId], config)
    /\ UNCHANGED <<config, runs, disposed, calc>>

\* onDidChangeConfiguration: re-read the configuration and process every
\* visible editor.
ConfigurationChange(cfg, V, lang) ==
    /\ ~disposed
    /\ cfg # config
    /\ config' = cfg
    /\ processActiveFiles(V, lang, cfg)
    /\ UNCHANGED <<runs, disposed, calc>>

\* onDidCloseTextDocument (lines 51-60).
closeTimers(d) ==
    IF debounceTimers[d] # NoTimer
    THEN {t \in timeouts : t.id = debounceTimers[d]}
    ELSE {}

\* closeDiagnostics calling diagnosticCollection.clear() for delete(doc.uri).
closeDiagnosticsAll(d) == [e \in Docs |-> NoDiagnostics]

closeDiagnostics(d) == [diagnosticCollection EXCEPT ![d] = NoDiagnostics]

closeScores(d) == [complexityScores EXCEPT ![d] = NoScores]

CloseDocument(d) ==
    /\ ~disposed
    /\ diagnosticCollection' = closeDiagnostics(d)
    /\ complexityScores' = closeScores(d)
    /\ timeouts' = timeouts \ closeTimers(d)
    /\ debounceTimers' = [debounceTimers EXCEPT ![d] = NoTimer]
    /\ status' = [status EXCEPT ![d] = "closed"]
    /\ failed' = {}
    /\ settled' = forget({d})
    /\ UNCHANGED <<config, runs, nextId, disposed, calc>>

(***************************************************************************)
(* The timer callback (extension.ts 131-199).                              *)
(***************************************************************************)
\* firedEntry with the delete of line 132 left out.
firedEntryKept(t) == debounceTimers

\* Line 132: debounceTimers.delete(docUriString).
firedEntry(t) == [debounceTimers EXCEPT ![t.doc] = NoTimer]

\* Lines 131-143: the callback runs up to its first await; the thresholds are
\* read from the configuration captured when the timer was armed.
TimerFires(t) ==
    /\ t \in timeouts
    /\ timeouts' = timeouts \ {t}
    /\ debounceTimers' = firedEntry(t)
    /\ runs' = runs \cup {[id               |-> t.id,
                           doc              |-> t.doc,
                           pc               |-> "getFileOutput",
                           complexityItems  |-> <<>>,
                           replaced         |-> t.replaced]}
    /\ failed' = {}
    /\ UNCHANGED <<config, diagnosticCollection, complexityScores, nextId, disposed,
                   status, settled, calc>>

\* Lines 143-150: getFileOutput resolves, the tree is flattened, and the
\* callback awaits the symbol provider.
FileOutputResolves(r, inner) ==
    /\ r \in runs
    /\ r.pc = "getFileOutput"
    /\ runs' = (runs \ {r}) \cup
                  {[r EXCEPT !.pc = "symbols", !.complexityItems = flattenInner(inner)]}
    /\ failed' = {}
    /\ UNCHANGED <<config, diagnosticCollection, complexityScores, debounceTimers,
                   timeouts, nextId, disposed, status, settled, calc>>

\* Lines 193-198: the catch block. On a disposed collection delete throws
\* after the scores are deleted; the collection was cleared by deactivate.
catchScores(d) == [complexityScores EXCEPT ![d] = NoScores]

\* catchDiagnostics with the delete of line 197 left out.
catchDiagnosticsKept(d) == diagnosticCollection

catchDiagnostics(d) == [diagnosticCollection EXCEPT ![d] = NoDiagnostics]

\* History: run r finishes. Timer handles grow, so of two runs of a document
\* the one with the greater handle started later.
settle(r) ==
    [d \in DOMAIN settled |->
        IF d = r.doc /\ r.id > settled[d].id
        THEN [id          |-> r.id,
              diagnostics |-> diagnosticCollection'[d],
              scores      |-> complexityScores'[d]]
        ELSE settled[d]]

\* Either awaited call rejects.
RunFails(r) ==
    /\ r \in runs
    /\ runs' = runs \ {r}
    /\ complexityScores' = catchScores(r.doc)
    /\ diagnosticCollection' = catchDiagnostics(r.doc)
    /\ failed' = {[doc |-> r.doc, had |-> HasResults(r.doc)]}
    /\ settled' = settle(r)
    /\ UNCHANGED <<config, debounceTimers, timeouts, nextId, disposed, status, calc>>

\* Lines 151-185: the result of a run whose symbol provider answered symbols.
runResult(r, symbols) ==
    matchItems(r.complexityItems, filterFunctionSymbols(symbols),
               DefaultWarningThreshold, DefaultErrorThreshold)

\* Line 188.
publishScores(d, currentScores) == [complexityScores EXCEPT ![d] = Entry(currentScores)]

\* publishDiagnostics adding to the published set where set() replaces it.
publishDiagnosticsAdded(d, diagnostics) ==
    [diagnosticCollection EXCEPT ![d] = Entry(@.value \o diagnostics)]

\* Line 191.
publishDiagnostics(d, diagnostics) == [diagnosticCollection EXCEPT ![d] = Entry(diagnostics)]

\* Lines 147-191: the symbol provider resolves and the run publishes. On a
\* disposed collection set throws after the scores are stored, and the catch
\* block deletes them again.
SymbolsResolve(r, symbols) ==
    /\ r \in runs
    /\ r.pc = "symbols"
    /\ runs' = runs \ {r}
    /\ LET res == runResult(r, symbols)
       IN  IF disposed
           THEN /\ complexityScores' = catchScores(r.doc)
                /\ diagnosticCollection' = diagnosticCollection
           ELSE /\ complexityScores' = publishScores(r.doc, res.currentScores)
                /\ diagnosticCollection' = publishDiagnostics(r.doc, res.diagnostics)
    /\ failed' = {}
    /\ settled' = settle(r)
    /\ UNCHANGED <<config, debounceTimers, timeouts, nextId, disposed, status, calc>>

(***************************************************************************)
(* deactivate (extension.ts 248-256).                                      *)
(***************************************************************************)
Deactivate ==
    /\ ~disposed
    /\ disposed' = TRUE
    /\ diagnosticCollection' = [d \in Docs |-> NoDiagnostics]
    /\ complexityScores' = [d \in Docs |-> NoScores]
    /\ timeouts' = {}
    /\ debounceTimers' = [d \in Docs |-> NoTimer]
    /\ failed' = {}
    /\ settled' = forget(Docs)
    /\ UNCHANGED <<config, runs, nextId, status, calc>>

(***************************************************************************)
(* activate (extension.ts 24-72): the initially visible editors V are      *)
(* processed, then both result maps are cleared.                           *)
(***************************************************************************)
\* history: the initial value of settled.
activate(history) ==
    \E cfg \in Configs, V \in SUBSET Docs :
      \E lang \in [V -> LanguageIds] :
        LET S == {d \in V : isSupportedLanguage(lang[d]) /\ cfg.enabled}
            id(d) == 1 + Cardinality({e \in S : Rank(e) < Rank(d)})
        IN  /\ config = cfg
            /\ diagnosticCollection = [d \in Docs |-> NoDiagnostics]
            /\ complexityScores = [d \in Docs |-> NoScores]
            /\ timeouts = {[id |-> id(d), doc |-> d, replaced |-> FALSE] : d \in S}
            /\ debounceTimers = [d \in Docs |-> IF d \in S THEN id(d) ELSE NoTimer]
            /\ runs = {}
            /\ nextId = 1 + Cardinality(S)
            /\ disposed = FALSE
            /\ failed = {}
            /\ status = [d \in Docs |-> IF d \in V \ S THEN "cleared" ELSE "tracked"]
            /\ settled = history
            /\ calc = NoCalc

\* No history of finished runs is kept.
Init == activate([d \in {} |-> NoSettled])

Next ==
    \/ \E d \in Docs, l \in LanguageIds : DocumentEvent(d, l)
    \/ \E cfg \in Configs, V \in SUBSET Docs :
         \E lang \in [V -> LanguageIds] : ConfigurationChange(cfg, V, lang)
    \/ \E d \in Docs : CloseDocument(d)
    \/ \E t \in timeouts : TimerFires(t)
    \/ \E r \in runs, inner \in FileOutputs : FileOutputResolves(r, inner)
    \/ \E r \in runs : RunFails(r)
    \/ \E r \in runs, symbols \in SymbolResults : SymbolsResolve(r, symbols)
    \/ Deactivate

Spec == Init /\ [][Next]_vars

(***************************************************************************)
(* The same program with the history of finished runs kept, under the      *)
(* scheduling the runtime gives: a timer that stays armed fires (setTimeout*)
(* of line 131), and an awaited service call settles, by resolving or by   *)
(* rejecting (lines 143 and 147).                                          *)
(***************************************************************************)
LiveInit == activate([d \in Docs |-> NoSettled])

\* The timer of handle i fires.
FireTimer(i) == \E t \in timeouts : t.id = i /\ TimerFires(t)

\* The awaited call of the run started by timer i settles.
SettleRun(i) ==
    \E r \in runs :
        /\ r.id = i
        /\ \/ \E inner \in FileOutputs : FileOutputResolves(r, inner)
           \/ \E symbols \in SymbolResults : SymbolsResolve(r, symbols)
           \/ RunFails(r)

LiveSpec ==
    /\ LiveInit
    /\ [][Next]_vars
    /\ \A i \in 1..MaxTimers : WF_vars(FireTimer(i)) /\ WF_vars(SettleRun(i))

(***************************************************************************)
(* The pure pipeline on drawn inputs: a complexity forest for flattenInner,*)
(* a score and two thresholds for the severity selection.                  *)
(***************************************************************************)
ScoreValues == {Undefined, 2, 5, 15}
LineValues == {Undefined, 1, 2}

\* The number of nodes of a forest (a sequence of ComplexityItem trees).
RECURSIVE NodeCount(_)
NodeCount(inner) ==
    IF inner = <<>> THEN 0
    ELSE 1 + NodeCount(inner[1].inner) + NodeCount(Tail(inner))

\* The length of the rightmost path of a forest.
RECURSIVE SpineLen(_)
SpineLen(inner) ==
    IF inner = <<>> THEN 0 ELSE 1 + SpineLen(inner[Len(inner)].inner)

\* The forest with item added as the last child of the node at the given
\* depth of the rightmost path (depth 0: as the last tree). Every forest is
\* built this way, node by node in pre-order.
RECURSIVE AddLast(_, _, _)
AddLast(inner, depth, item) ==
    IF depth = 0 THEN Append(inner, item)
    ELSE [inner EXCEPT ![Len(inner)].inner = AddLast(@, depth - 1, item)]

\* The symbol an item of line 1 matches.
OneSymbol == <<Symbol("Function", 0, <<>>)>>

\* The symbol kinds drawn: the three kept by filterFunctionSymbols and one
\* that is not.
SymbolKinds == {"Function", "Method", "Constructor", "Class"}
\* The 0-based lines the drawn symbols start on.
SymbolLines == {0, 1}

\* The number of symbols of a symbol forest.
RECURSIVE SymbolCount(_)
SymbolCount(symbols) ==
    IF symbols = <<>> THEN 0
    ELSE 1 + SymbolCount(symbols[1].children) + SymbolCount(Tail(symbols))

\* The length of the rightmost path of a symbol forest.
RECURSIVE SymbolSpineLen(_)
SymbolSpineLen(symbols) ==
    IF symbols = <<>> THEN 0 ELSE 1 + SymbolSpineLen(symbols[Len(symbols)].children)

\* The symbol forest with symbol added as the last child of the symbol at the
\* given depth of the rightmost path.
RECURSIVE AddLastSymbol(_, _, _)
AddLastSymbol(symbols, depth, symbol) ==
    IF depth = 0 THEN Append(symbols, symbol)
    ELSE [symbols EXCEPT ![Len(symbols)].children = AddLastSymbol(@, depth - 1, symbol)]

\* The flat entries the match loop is applied to: one or two entries as
\* flattenInner emits them (a line, a positive score), on 1-based lines that
\* some drawn symbol can start on (1, 2) or none can (3), with a score at the
\* default warning threshold or above it.
FlatEntries == {Leaf(s, l) : s \in {DefaultWarningThreshold, 15}, l \in {1, 2, 3}}
FlatEntrySeqs == {<<a>> : a \in FlatEntries} \cup {<<a, b>> : a, b \in FlatEntries}

CalcInit ==
    /\ config = [enabled |-> TRUE,
                 warningThreshold |-> DefaultWarningThreshold,
                 errorThreshold |-> DefaultErrorThreshold]
    /\ diagnosticCollection = [d \in Docs |-> NoDiagnostics]
    /\ complexityScores = [d \in Docs |-> NoScores]
    /\ timeouts = {}
    /\ debounceTimers = [d \in Docs |-> NoTimer]
    /\ runs = {}
    /\ nextId = 1
    /\ disposed = FALSE
    /\ failed = {}
    /\ status = [d \in Docs |-> "tracked"]
    /\ settled = [d \in {} |-> NoSettled]
    /\ \/ calc = [op |-> "input", kind |-> "forest", inner |-> <<>>]
       \/ calc = [op |-> "input", kind |-> "symbols", symbols |-> <<>>]
       \/ \E score \in 0..MaxScore, w \in 0..MaxScore, e \in 0..MaxScore :
            calc = [op |-> "input", kind |-> "score", score |-> score,
                    warningThreshold |-> w, errorThreshold |-> e]

\* The drawn forest grows by one node.
CalcGrow ==
    /\ calc.op = "input"
    /\ calc.kind = "forest"
    /\ NodeCount(calc.inner) < MaxNodes
    /\ \E depth \in 0..SpineLen(calc.inner), s \in ScoreValues, l \in LineValues :
          calc' = [calc EXCEPT !.inner = AddLast(@, depth, Leaf(s, l))]
    /\ UNCHANGED progVars

\* flattenInner(output.inner), line 144.
CalcFlatten ==
    /\ calc.op = "input"
    /\ calc.kind = "forest"
    /\ calc' = [op |-> "flatten", inner |-> calc.inner, out |-> flattenInner(calc.inner)]
    /\ UNCHANGED progVars

\* The forEach body (lines 154-185) on one matched item of the drawn score.
CalcSeverity ==
    /\ calc.op = "input"
    /\ calc.kind = "score"
    /\ calc' = [op |-> "severity", score |-> calc.score,
                warningThreshold |-> calc.warningThreshold,
                errorThreshold |-> calc.errorThreshold,
                out |-> severity(calc.score, calc.warningThreshold, calc.errorThreshold),
                published |-> matchItems(<<Leaf(calc.score, 1)>>, OneSymbol,
                                         calc.warningThreshold,
                                         calc.errorThreshold).diagnostics]
    /\ UNCHANGED progVars

\* The drawn symbol forest grows by one symbol.
CalcGrowSymbols ==
    /\ calc.op = "input"
    /\ calc.kind = "symbols"
    /\ SymbolCount(calc.symbols) < MaxSymbols
    /\ \E depth \in 0..SymbolSpineLen(calc.symbols), k \in SymbolKinds, l \in SymbolLines :
          calc' = [calc EXCEPT !.symbols = AddLastSymbol(@, depth, Symbol(k, l, <<>>))]
    /\ UNCHANGED progVars

\* Lines 151-185 on the drawn symbols and flat entries, with the default
\* thresholds: the filtered symbols, the index find answers for each entry
\* (0: undefined), and the scores and diagnostics the loop builds.
CalcMatch ==
    /\ calc.op = "input"
    /\ calc.kind = "symbols"
    /\ \E complexityItems \in FlatEntrySeqs :
          LET functionSymbols == filterFunctionSymbols(calc.symbols)
          IN  calc' = [op |-> "match",
                       symbols |-> calc.symbols,
                       complexityItems |-> complexityItems,
                       functionSymbols |-> functionSymbols,
                       found |-> [i \in 1..Len(complexityItems) |->
                                    findSymbol(functionSymbols, complexityItems[i], 1)],
                       result |-> matchItems(complexityItems, functionSymbols,
                                             DefaultWarningThreshold,
                                             DefaultErrorThreshold)]
    /\ UNCHANGED progVars

CalcNext == CalcGrow \/ CalcFlatten \/ CalcSeverity \/ CalcGrowSymbols \/ CalcMatch

CalcSpec == CalcInit /\ [][CalcNext]_vars

(***************************************************************************)
(* Properties of the debounce machinery, checked under Spec.               *)
(***************************************************************************)
\* Document d shows no diagnostics, holds no scores and has no timer pending.
NothingFor(d) ==
    /\ diagnosticCollection[d].value = <<>>
    /\ ~complexityScores[d].has
    /\ debounceTimers[d] = NoTimer
    /\ ArmedFor(d) = {}

\* C1: after a document is closed, and until a later qualifying event for it,
\* it has no published diagnostics, no pending timer and no score-cache entry;
\* a run in flight at the close publishes nothing when it completes.
C1_CloseIsFinal == \A d \in Docs : status[d] = "closed" => NothingFor(d)

\* C2: at every instant at most one run per document is in flight.
C2_OneRunPerDocument == \A d \in Docs : Cardinality(RunsFor(d)) <= 1

\* C3: the follow-up run of an event that arrived during a run starts only
\* after that run has completed: no timer of a document fires while a run of
\* that document is in flight.
C3_FollowUpAfterCompletion ==
    [][\A t \in timeouts : TimerFires(t) => RunsFor(t.doc) = {}]_vars

\* C4: a burst of events on a supported, enabled document, each arriving
\* before the previous timer fired, starts exactly one run: every scheduling
\* event leaves exactly the timer it armed (the previous one is cancelled and
\* never fires), and the timer that fires is the one armed by the last event,
\* starts one run and leaves no timer of the document armed.
C4_Coalescing ==
    [][/\ \A d \in Docs : \A t \in ArmedFor(d)' \ ArmedFor(d) :
             /\ ArmedFor(d)' = {t}
             /\ t.id = debounceTimers'[d]
             /\ t.replaced <=> ArmedFor(d) # {}
       /\ \A t \in timeouts : TimerFires(t) =>
             /\ t.id = debounceTimers[t.doc]
             /\ ArmedFor(t.doc)' = {}
             /\ \E r \in runs' \ runs :
                   /\ runs' = runs \cup {r}
                   /\ r.id = t.id /\ r.doc = t.doc /\ r.pc = "getFileOutput"]_vars

\* A run started by the timer of the last of two or more coalesced events.
C4_Witness == \E r \in runs : r.replaced

\* C5: each document has at most one outstanding timer, and the timer map
\* holds an entry for a document exactly when that timer is outstanding.
C5_TimerMapExact ==
    \A d \in Docs :
        /\ Cardinality(ArmedFor(d)) <= 1
        /\ debounceTimers[d] # NoTimer <=> ArmedFor(d) # {}
        /\ \A t \in ArmedFor(d) : t.id = debounceTimers[d]

\* A timer re-armed by a second event is pending for one document while the
\* timer of another has fired and its entry is gone.
C5_Witness ==
    \E t \in timeouts, r \in runs :
        /\ t.replaced /\ debounceTimers[t.doc] = t.id
        /\ r.doc # t.doc /\ debounceTimers[r.doc] = NoTimer

\* C6: when a run fails, its document is left with no published diagnostics
\* and no score-cache entry, whatever it had before, and the failure arms no
\* timer and only ends that run.
C6_FailureClears ==
    [][\A f \in failed' :
          /\ diagnosticCollection'[f.doc] = NoDiagnostics
          /\ complexityScores'[f.doc] = NoScores
          /\ debounceTimers' = debounceTimers
          /\ timeouts' = timeouts
          /\ \E r \in RunsFor(f.doc) : runs' = runs \ {r}]_vars

\* A run failed for a document that had results published or cached.
C6_Witness == \E f \in failed : f.had

\* What the model holds for document b.
StateOf(b) ==
    <<diagnosticCollection[b], complexityScores[b], debounceTimers[b], ArmedFor(b)>>

\* A step of an operation on document a.
ActsOn(a) ==
    \/ \E l \in LanguageIds : DocumentEvent(a, l)
    \/ CloseDocument(a)
    \/ \E t \in ArmedFor(a) : TimerFires(t)
    \/ \E r \in RunsFor(a) :
          \/ RunFails(r)
          \/ \E inner \in FileOutputs : FileOutputResolves(r, inner)
          \/ \E symbols \in SymbolResults : SymbolsResolve(r, symbols)

\* A configuration change that processes the visible documents V.
ConfigurationActsOn(V) ==
    \E cfg \in Configs, lang \in [V -> LanguageIds] : ConfigurationChange(cfg, V, lang)

\* C7: an operation on document a (event, timer expiry, successful or failed
\* run, close, unsupported or disabled check) leaves the diagnostics, scores
\* and timer of every other document b unchanged: a step that changes them
\* for b is no step of an operation on a, and no configuration change that
\* processes only documents other than b.
C7_Isolation ==
    [][\A b \in Docs :
          StateOf(b)' # StateOf(b) =>
              /\ \A a \in Docs \ {b} : ~ActsOn(a)
              /\ \A V \in SUBSET (Docs \ {b}) : ~ConfigurationActsOn(V)]_vars

\* A run of one document failed while another document shows diagnostics,
\* holds scores and has a timer pending.
C7_Witness ==
    \E f \in failed, b \in Docs :
        /\ b # f.doc
        /\ diagnosticCollection[b].value # <<>>
        /\ complexityScores[b].has
        /\ ArmedFor(b) # {}

\* C8: once an event has found a document unsupported or the extension
\* disabled, and until an event finds it supported and enabled, the document
\* has no published diagnostics, no score-cache entry and no pending timer.
C8_ClearedStaysClear == \A d \in Docs : status[d] = "cleared" => NothingFor(d)

(***************************************************************************)
(* Properties of the pure pipeline, checked under CalcSpec.                *)
(***************************************************************************)
\* C9: for every score and pair of thresholds the severity is Error exactly
\* when score > errorThreshold, Warning exactly when it is not and
\* score > warningThreshold, none otherwise; classify(10,10,20) = none,
\* classify(11,10,20) = classify(20,10,20) = Warning, classify(21,10,20) =
\* Error; and a matched symbol gets a diagnostic exactly when the severity is
\* Error or Warning, carrying that severity.
C9_Classification ==
    calc.op = "severity" =>
        LET score == calc.score
            w == calc.warningThreshold
            e == calc.errorThreshold
        IN  /\ calc.out = "Error" <=> score > e
            /\ calc.out = "Warning" <=> (score <= e /\ score > w)
            /\ calc.out = "null" <=> (score <= e /\ score <= w)
            /\ (w = 10 /\ e = 20 /\ score = 10) => calc.out = "null"
            /\ (w = 10 /\ e = 20 /\ score \in {11, 20}) => calc.out = "Warning"
            /\ (w = 10 /\ e = 20 /\ score = 21) => calc.out = "Error"
            /\ calc.published # <<>> <=> calc.out \in {"Error", "Warning"}
            /\ \A i \in 1..Len(calc.published) :
                  /\ Len(calc.published) = 1
                  /\ calc.published[i].severity = calc.out

\* classify(21, 10, 20) = Error, published as a diagnostic.
C9_Witness ==
    /\ calc.op = "severity"
    /\ calc.score = 21 /\ calc.warningThreshold = 10 /\ calc.errorThreshold = 20
    /\ calc.out = "Error"
    /\ Len(calc.published) = 1

\* The sum of the scores of the direct children only.
RECURSIVE DirectChildSum(_)
DirectChildSum(inner) ==
    IF inner = <<>> THEN 0
    ELSE OrZero(inner[1].score) + DirectChildSum(Tail(inner))

\* Flattening as stated: net = node.score - the scores of the direct
\* children, emitted when net > 0 and the node has a line, in pre-order.
RECURSIVE FlattenDirect(_)
FlattenDirect(inner) ==
    IF inner = <<>> THEN <<>>
    ELSE LET item == inner[1]
             net  == OrZero(item.score) - DirectChildSum(item.inner)
             own  == IF net > 0 /\ Truthy(item.line)
                     THEN <<[item EXCEPT !.score = net]>>
                     ELSE <<>>
         IN  own \o FlattenDirect(item.inner) \o FlattenDirect(Tail(inner))

\* C10: for every tree, flatten emits for each node its score minus the
\* scores of its direct children only, exactly when that is > 0 and the node
\* has a line (15 over 5 over 2 yields 10, 3, 2).
C10_DirectChildrenOnly ==
    calc.op = "flatten" => calc.out = FlattenDirect(calc.inner)

\* The sum of the scores of a sequence of flat entries.
RECURSIVE SumScores(_)
SumScores(items) ==
    IF items = <<>> THEN 0 ELSE OrZero(items[1].score) + SumScores(Tail(items))

\* Every node of the forest has a line and a score strictly greater than the
\* sum of the scores of its direct children.
RECURSIVE WellFormed(_)
WellFormed(inner) ==
    \A i \in 1..Len(inner) :
        /\ Truthy(inner[i].line)
        /\ inner[i].score # Undefined
        /\ inner[i].score > DirectChildSum(inner[i].inner)
        /\ WellFormed(inner[i].inner)

\* C11: for every forest in which every node has a line and a score strictly
\* greater than the sum of its direct children's scores, the net scores of
\* the emitted entries add up to the scores of the top-level nodes.
C11_Conservation ==
    (calc.op = "flatten" /\ WellFormed(calc.inner)) =>
        SumScores(calc.out) = DirectChildSum(calc.inner)

\* The symbols of kind function, method or constructor in pre-order: a symbol
\* before its children, the children of any symbol before its next sibling.
RECURSIVE PreOrderFunctions(_)
PreOrderFunctions(symbols) ==
    IF symbols = <<>> THEN <<>>
    ELSE LET symbol == symbols[1]
             own == IF symbol.kind \in {"Function", "Method", "Constructor"}
                    THEN <<symbol>> ELSE <<>>
         IN  own \o PreOrderFunctions(symbol.children) \o PreOrderFunctions(Tail(symbols))

\* The positions of the symbols of list L that start on the line of the entry.
Matching(L, entry) ==
    {i \in 1..Len(L) : L[i].selectionRange.start.line = entry.line - 1}

Least(S) == CHOOSE i \in S : \A j \in S : i <= j

\* C12: the symbol tree is flattened in pre-order keeping only functions,
\* methods and constructors, the children of other kinds still being scanned;
\* each flat entry is matched to the first symbol of that list starting on
\* line entry.line - 1; an entry with no such symbol yields no diagnostic and
\* no cache entry.
C12_SymbolMatching ==
    calc.op = "match" =>
        LET L == calc.functionSymbols
            entries == calc.complexityItems
            matched == {i \in 1..Len(entries) : Matching(L, entries[i]) # {}}
            symbolOf(i) == L[Least(Matching(L, entries[i]))]
        IN  /\ L = PreOrderFunctions(calc.symbols)
            /\ \A i \in 1..Len(entries) :
                  calc.found[i] = IF i \in matched
                                  THEN Least(Matching(L, entries[i])) ELSE 0
            /\ DOMAIN calc.result.currentScores =
                  {rangeToString(symbolOf(i).selectionRange) : i \in matched}
            /\ Len(calc.result.diagnostics) =
                  Cardinality({i \in matched : entries[i].score > DefaultWarningThreshold})
            /\ \A k \in 1..Len(calc.result.diagnostics) :
                  \E i \in matched : calc.result.diagnostics[k].range = symbolOf(i).selectionRange

\* A class on line 0 holding a method on line 1: the method is the only
\* symbol kept, the entry of line 2 matches it and gets the only diagnostic,
\* the entry of line 3 matches no symbol.
C12_Witness ==
    /\ calc.op = "match"
    /\ calc.symbols = <<Symbol("Class", 0, <<Symbol("Method", 1, <<>>)>>)>>
    /\ calc.functionSymbols = <<Symbol("Method", 1, <<>>)>>
    /\ calc.complexityItems = <<Leaf(15, 2), Leaf(15, 3)>>
    /\ calc.found = <<1, 0>>
    /\ Len(calc.result.diagnostics) = 1
    /\ DOMAIN calc.result.currentScores = {"1,9-1,12"}

(***************************************************************************)
(* Properties of the runs, checked under LiveSpec.                         *)
(***************************************************************************)
\* Document d has no timer pending and no run in flight.
Idle(d) == ArmedFor(d) = {} /\ RunsFor(d) = {}

\* The last event for d was a qualifying one that found it supported and
\* enabled, and the run of that event has finished.
LastRunFinished(d) ==
    /\ d \in DOMAIN settled
    /\ status[d] = "tracked"
    /\ ~disposed
    /\ settled[d].id # NoTimer

\* Document d shows and caches what its last-started finished run left: the
\* diagnostics and scores of that run, or nothing if it failed.
ShowsSettled(d) ==
    /\ diagnosticCollection[d] = settled[d].diagnostics
    /\ complexityScores[d] = settled[d].scores

\* The part of C13 that is about progress: a document with a timer pending
\* or a run in flight is eventually idle.
EventuallyIdle == \A d \in Docs : ~Idle(d) ~> Idle(d)

\* C13: after a qualifying event on a supported, enabled document, with no
\* further event or close for it, the document returns to idle with the
\* diagnostics and scores of the run of that event published, or both
\* cleared if that run failed.
C13_AnalysisHappens ==
    \A d \in Docs : (Idle(d) /\ LastRunFinished(d)) => ShowsSettled(d)

(***************************************************************************)
(* Properties of publication, checked under Spec.                          *)
(***************************************************************************)
\* What one run can build: the scores and diagnostics from one answer of each
\* service.
Buildable ==
    {matchItems(flattenInner(inner), filterFunctionSymbols(symbols),
                DefaultWarningThreshold, DefaultErrorThreshold) :
        inner \in FileOutputs, symbols \in SymbolResults}

\* Document d shows and caches nothing, or the diagnostics and the scores
\* that one run builds.
OneRunShown(d) ==
    \/ /\ diagnosticCollection[d] = NoDiagnostics
       /\ complexityScores[d] = NoScores
    \/ \E built \in Buildable :
          /\ diagnosticCollection[d] = Entry(built.diagnostics)
          /\ complexityScores[d] = Entry(built.currentScores)

\* C14: when a run of a document succeeds, the document's published
\* diagnostics become exactly the sequence the run built and its cached scores
\* exactly the map the run built, whatever was there before; and every state
\* shows, per document, the diagnostics and the scores of one and the same
\* run, or none of either.
C14_ReplaceAll ==
    [][/\ \A d \in Docs : OneRunShown(d)'
       /\ runs' # runs =>
            \A r \in runs \ runs' : \A symbols \in SymbolResults :
                (~disposed /\ SymbolsResolve(r, symbols)) =>
                    LET built == matchItems(r.complexityItems,
                                            filterFunctionSymbols(symbols),
                                            DefaultWarningThreshold,
                                            DefaultErrorThreshold)
                    IN  /\ diagnosticCollection'[r.doc] = Entry(built.diagnostics)
                        /\ complexityScores'[r.doc] = Entry(built.currentScores)]_vars

\* A run that built no diagnostics has left one document with none and an
\* empty score map, while the other document shows a diagnostic of its run.
C14_Witness ==
    \E d \in Docs, e \in Docs :
        /\ diagnosticCollection[d] = Entry(<<>>)
        /\ complexityScores[d] = Entry(EmptyMap)
        /\ Len(diagnosticCollection[e].value) = 1
        /\ Cardinality(DOMAIN complexityScores[e].value) = 2

\* The entries of a forest in pre-order: for each node in input order, its
\* own entry if it has one (a positive net score as the code computes it, and
\* a line), then the entries of its children, whether or not it has one.
RECURSIVE PreOrderEntries(_)
PreOrderEntries(inner) ==
    IF inner = <<>> THEN <<>>
    ELSE LET item == inner[1]
             own  == IF adjustedScore(item) > 0 /\ item.line \notin {Undefined, 0}
                     THEN <<[item EXCEPT !.score = adjustedScore(item)]>>
                     ELSE <<>>
         IN  own \o PreOrderEntries(item.inner) \o PreOrderEntries(Tail(inner))

\* C15: flatten recurses into the children of every node, whether or not the
\* node itself is emitted: a node whose net score is <= 0 (score 5 over a
\* single child of score 5) or whose line is missing emits nothing for itself
\* while the entries of its descendants are emitted; a childless node with a
\* positive score and a line emits its full score; each emitted node precedes
\* the entries of its descendants, siblings in input order.
C15_PreOrder ==
    calc.op = "flatten" =>
        /\ calc.out = PreOrderEntries(calc.inner)
        /\ \A i \in 1..Len(calc.out) :
              calc.out[i].score > 0 /\ calc.out[i].line \notin {Undefined, 0}
        /\ \A l \in LineValues \ {Undefined}, k \in LineValues \ {Undefined} :
              calc.inner = <<Node(5, l, <<Leaf(5, k)>>)>> => calc.out = <<Leaf(5, k)>>
        /\ \A s \in ScoreValues \ {Undefined}, k \in LineValues \ {Undefined} :
              calc.inner = <<Node(15, Undefined, <<Leaf(s, k)>>)>> => calc.out = <<Leaf(s, k)>>
        /\ \A s \in ScoreValues, l \in LineValues :
              calc.inner = <<Leaf(s, l)>> =>
                  calc.out = IF s # Undefined /\ s > 0 /\ l # Undefined
                             THEN <<Leaf(s, l)>> ELSE <<>>

\* A node of score 5 over a single child of score 5, both with a line: only
\* the child is emitted.
C15_Witness ==
    /\ calc.op = "flatten"
    /\ calc.inner = <<Node(5, 1, <<Leaf(5, 2)>>)>>
    /\ calc.out = <<Leaf(5, 2)>>

\* The severity selection was applied with errorThreshold < warningThreshold.
Misconfigured == calc.op = "severity" /\ calc.errorThreshold < calc.warningThreshold

\* C16 as stated: with errorThreshold < warningThreshold, a score above the
\* error threshold is classified Warning.
C16_MisconfiguredWarning ==
    (Misconfigured /\ calc.score > calc.errorThreshold) =>
        /\ calc.out = "Warning"
        /\ Len(calc.published) = 1
        /\ calc.published[1].severity = "Warning"

\* C16, amended: the thresholds are used as configured, and with
\* errorThreshold < warningThreshold a score above the error threshold is
\* classified Error, a score at or below it gets no diagnostic, and no score
\* is classified Warning.
C16_MisconfiguredError ==
    Misconfigured =>
        /\ calc.score > calc.errorThreshold =>
              /\ calc.out = "Error"
              /\ Len(calc.published) = 1
              /\ calc.published[1].severity = "Error"
        /\ calc.score <= calc.errorThreshold =>
              /\ calc.out = "null"
              /\ calc.published = <<>>
        /\ calc.out # "Warning"

\* Thresholds 20 (warning) and 10 (error): the score 15, above the error
\* threshold and below the warning threshold, is published as an Error.
C16_Witness ==
    /\ Misconfigured
    /\ calc.warningThreshold = 20 /\ calc.errorThreshold = 10 /\ calc.score = 15
    /\ calc.out = "Error"
    /\ Len(calc.published) = 1

\* C18: whenever runs of a document have finished, in whatever order their
\* service calls completed, the document shows the diagnostics and caches the
\* scores left by the one that started last.
C18_LaterRunWins ==
    \A d \in DOMAIN settled : settled[d].id # NoTimer => ShowsSettled(d)

\* The keys of the ranges of the symbols the flat entries matched.
MatchedKeys ==
    {rangeToString(calc.functionSymbols[calc.found[i]].selectionRange) :
        i \in {j \in 1..Len(calc.complexityItems) : calc.found[j] # 0}}

\* The cache holds one entry for every matched symbol, and the range key of
\* every diagnostic is a key of the cache.
CacheCoversDiagnostics ==
    calc.op = "match" =>
        /\ DOMAIN calc.result.currentScores = MatchedKeys
        /\ \A k \in 1..Len(calc.result.diagnostics) :
              rangeToString(calc.result.diagnostics[k].range)
                  \in DOMAIN calc.result.currentScores

\* C19: after a successful run the cache holds one entry for every matched
\* symbol, also for those that get no diagnostic; the range key of every
\* diagnostic is a key of the cache; and the score cached for that key is
\* the score in the message of the diagnostic, also when several flat
\* entries have the same line and match the same symbol.
C19_CacheAgrees ==
    calc.op = "match" =>
        /\ CacheCoversDiagnostics
        /\ \A k \in 1..Len(calc.result.diagnostics) :
              LET diagnostic == calc.result.diagnostics[k]
                  key == rangeToString(diagnostic.range)
              IN  diagnostic.message =
                      "Cognitive Complexity: " \o ToString(calc.result.currentScores[key])

====
